---- MODULE Spec2Model ----
(***************************************************************************)
(* acdcontrol: brightness control of USB HID displays (acdcontrol.cpp).    *)
(*                                                                         *)
(* The model follows main() statement by statement.  One action is one     *)
(* system call of main (open, ioctl, close) together with the local        *)
(* computation and the branches that follow it up to the next system call; *)
(* command-line parsing is one action per loop iteration.  The devices     *)
(* behind the device nodes are the environment: a small fixed table of     *)
(* hiddev nodes of every class the driver distinguishes, on which the      *)
(* version and device-info queries succeed.                                *)
(***************************************************************************)
EXTENDS Integers, Sequences, FiniteSets, TLC

VARIABLES
  pc,            \* position of main()
  nopts,         \* options consumed by the getopt loop so far
  nargs,         \* positional parameters consumed so far
  silent,        \* bool silent
  force,         \* bool force
  mode,          \* int mode
  open_mode,     \* int open_mode
  brightness,    \* int brightness
  amount,        \* int amount
  files,         \* FileList files
  it,            \* position of the iterator in files (1-based)
  fd,            \* node behind the current descriptor, -1 when none
  first_device,  \* bool first_device
  device_info,   \* struct hiddev_devinfo device_info
  usage_value,   \* usage_ref.value
  handles,       \* candidates (positions in files) whose descriptor is open
  calls,         \* every system call made on a device node, in order
  out,           \* what was printed, in order
  exitCode,      \* process exit status, -1 while running
  devValue,      \* brightness stored by each device
  runs,          \* invocations of the program started so far
  prev           \* summary of the previous invocation

vars == << pc, nopts, nargs, silent, force, mode, open_mode, brightness,
           amount, files, it, fd, first_device, device_info, usage_value,
           handles, calls, out, exitCode, devValue, runs, prev >>

-----------------------------------------------------------------------------
(* Bounds of the model *)

MaxOpts == 2
MaxArgs == 3
MaxRuns == 2
MaxSessionFiles == 1

-----------------------------------------------------------------------------
(* Program constants *)

GET == 0
SET == 1
DETECT == 2
SETREL == 3

APPLE == 1452
SAMSUNG == 1049
STUDIO_DISPLAY_15 == 37397
STUDIO_DISPLAY_17 == 37399
CINEMA_DISPLAY_23_OLD == 37400
CINEMA_DISPLAY_20_OLD == 37401
CINEMA_DISPLAY_24 == 37406
CINEMA_DISPLAY_30 == 37426
S1 == 32770

O_RDONLY == 0
O_RDWR == 2

\* the arguments of the exit() calls of main()
ExitInfo == 0
ExitUnknownOption == 2
ExitNoFiles == 1
ExitUnsupported == 2
ExitInitFailed == 1
ExitUsageFailed == 2
\* exit( 2 ) copied from the usage failure
ExitReportFailedAsUsage == ExitUsageFailed
ExitReportFailed == 3
ExitReturn == 0

IntMax == 2147483647
IntMin == (0 - IntMax) - 1

\* a + b does not fit an int (evaluated without leaving the range of int)
Overflows(a, b) ==
  (b > 0 /\ a > IntMax - b) \/ (b < 0 /\ a < IntMin - b)

\* the two's complement result of a + b in 32 bits
WrapAdd(a, b) ==
  IF b > 0 /\ a > IntMax - b THEN ((a - IntMax) + (b - 1)) + IntMin
  ELSE IF b < 0 /\ a < IntMin - b THEN ((a - IntMin) + (b + 1)) + IntMax
  ELSE a + b

max(a, b) == IF a < b THEN b ELSE a

min(a, b) == IF b < a THEN b ELSE a

-----------------------------------------------------------------------------
(* Device registry *)

DeviceId(vendor_, product_, description_) ==
  [product |-> product_, vendor |-> vendor_, description |-> description_]

DeviceLess(a, b) ==
  (a.vendor < b.vendor) \/ (a.vendor = b.vendor /\ a.product < b.product)

\* std::set::insert: the element is added unless an equivalent one is present
SetInsert(s, d) ==
  IF \E e \in s : ~DeviceLess(e, d) /\ ~DeviceLess(d, e) THEN s ELSE s \cup {d}

SetFind(s, d) ==
  \E e \in s : ~DeviceLess(e, d) /\ ~DeviceLess(d, e)

RegistryInserts ==
  << DeviceId(APPLE, STUDIO_DISPLAY_15, "Apple Studio Display 15"),
     DeviceId(APPLE, STUDIO_DISPLAY_17, "Apple Studio Display 17"),
     DeviceId(APPLE, CINEMA_DISPLAY_20_OLD, "Apple Cinema Display 20 (old)"),
     DeviceId(APPLE, CINEMA_DISPLAY_23_OLD, "Apple Cinema Display 23 (old)"),
     DeviceId(APPLE, CINEMA_DISPLAY_24, "Apple Cinema Display 24"),
     DeviceId(APPLE, CINEMA_DISPLAY_30, "Apple Cinema HD Display 30"),
     DeviceId(SAMSUNG, S1, "Samsung SyncMaster 757NF") >>

RECURSIVE InsertAll(_, _)
InsertAll(s, seq) ==
  IF seq = << >> THEN s ELSE InsertAll(SetInsert(s, Head(seq)), Tail(seq))

init_device_database == InsertAll({}, RegistryInserts)

supportedDevices == init_device_database

\* the lookup without the 16-bit masks
is_supportedUnmasked(info) ==
  SetFind(supportedDevices, DeviceId(info.vendor, info.product, ""))

is_supported(info) ==
  LET product == info.product % 65536
      vendor == info.vendor % 65536
  IN SetFind(supportedDevices, DeviceId(vendor, product, ""))

-----------------------------------------------------------------------------
(* Environment: the device nodes *)

\* the device nodes; 0 stands for a path that does not exist
Nodes == 1 .. 5

\* vendor and product are the signed 16-bit fields of hiddev_devinfo;
\* apps are the results of HIDIOCAPPLICATION by index (-1: the query fails);
\* snap is the granularity to which the display rounds a written value.
Device(n) ==
  CASE n = 1 -> [kind |-> "hid", vendor |-> 1452, product |-> -28135,
                 apps |-> << 8388609 >>, snap |-> 1]
    [] n = 2 -> [kind |-> "hid", vendor |-> 1452, product |-> -28130,
                 apps |-> << 65542, 8388609 >>, snap |-> 16]
    [] n = 3 -> [kind |-> "hid", vendor |-> 4660, product |-> 1,
                 apps |-> << -1, 8388609 >>, snap |-> 1]
    [] n = 4 -> [kind |-> "hid", vendor |-> 1452, product |-> -28137,
                 apps |-> << 65542, -1 >>, snap |-> 1]
    [] n = 5 -> [kind |-> "hid", vendor |-> 1133, product |-> -16265,
                 apps |-> << 65538 >>, snap |-> 1]

Path(n) ==
  CASE n = 1 -> << "h", "0" >>
    [] n = 2 -> << "h", "1" >>
    [] n = 3 -> << "h", "2" >>
    [] n = 4 -> << "h", "3" >>
    [] n = 5 -> << "h", "4" >>

MissingPath == << "n", "x" >>

NodeOf(path) ==
  IF \E n \in Nodes : Path(n) = path
    THEN CHOOSE n \in Nodes : Path(n) = path
    ELSE 0

\* what an open() of the path can return: a missing path always fails, an
\* existing node opens or is refused (permissions)
OpenOutcomes(path) == IF NodeOf(path) = 0 THEN {FALSE} ELSE BOOLEAN

\* what a report ioctl on the node can return: success or failure
IoctlOutcomes(n) == BOOLEAN

DevInfoOf(n) ==
  [vendor |-> Device(n).vendor, product |-> Device(n).product,
   num_applications |-> Len(Device(n).apps)]

\* ioctl(fd, HIDIOCAPPLICATION, appl_num)
Application(n, appl_num) ==
  IF Device(n).kind = "hid" /\ appl_num < Len(Device(n).apps)
    THEN Device(n).apps[appl_num + 1]
    ELSE -1

\* the value the display keeps when v is written to it
Snap(n, v) == (v \div Device(n).snap) * Device(n).snap

\* device_info before the first HIDIOCGDEVINFO: not yet written, and never
\* read in that state (every node is a hiddev node, on which the call
\* succeeds)
Uninit == [vendor |-> 0, product |-> 0, num_applications |-> -1]

-----------------------------------------------------------------------------
(* Command line *)

Digits == { "0", "1", "2", "3", "4", "5", "6", "7", "8", "9" }

DigitChars == << "0", "1", "2", "3", "4", "5", "6", "7", "8", "9" >>

DigitVal(c) == (CHOOSE i \in 1 .. 10 : DigitChars[i] = c) - 1

\* bool number( const char* str ): only the first character is looked at
number(str) ==
  IF str = << >> THEN FALSE
  ELSE (Head(str) \in Digits) \/ (Head(str) = "+") \/ (Head(str) = "-")

RECURSIVE AtoiDigits(_, _)
AtoiDigits(str, acc) ==
  IF str = << >> \/ Head(str) \notin Digits THEN acc
  ELSE AtoiDigits(Tail(str), acc * 10 + DigitVal(Head(str)))

\* atoi: optional sign, then the leading decimal digits (0 when there are
\* none).  Every numeric parameter of the model is within the range of int.
atoi(str) ==
  IF str = << >> THEN 0
  ELSE IF Head(str) = "-" THEN 0 - AtoiDigits(Tail(str), 0)
  ELSE IF Head(str) = "+" THEN AtoiDigits(Tail(str), 0)
  ELSE AtoiDigits(str, 0)

\* getopt_long( argc, argv, "abhsdl", long_options ): the option character
\* for an option word, "?" for a word that is no known option
getopt_long(word) ==
  CASE word \in { "-a", "--about" } -> "a"
    [] word \in { "-b", "--brief" } -> "b"
    [] word \in { "-h", "--help" } -> "h"
    [] word \in { "-s", "--silent" } -> "s"
    [] word = "--force" -> "f"
    [] word \in { "-d", "--detect" } -> "d"
    [] word \in { "-l", "--list-all" } -> "l"
    [] OTHER -> "?"

\* if ( mode != DETECT && number ( argv[ param ] ) )
IsBrightnessParam(m, str) == m # DETECT /\ number(str)

\* if ( argv[ param ][0] == '+' || argv[ param ][0] == '-' )
IsRelativeParam(str) == Head(str) = "+" \/ Head(str) = "-"

\* the assignment left out: open_mode keeps O_RDONLY
OpenModeForReadOnly(m) == O_RDONLY

\* if ( mode == SET || mode == SETREL ) open_mode = O_RDWR
OpenModeFor(m) == IF m = SET \/ m = SETREL THEN O_RDWR ELSE O_RDONLY

-----------------------------------------------------------------------------
(* Device probe and brightness arithmetic *)

RECURSIVE MonitorLoop(_, _, _)
MonitorLoop(info, n, appl_num) ==
  IF appl_num < info.num_applications
    THEN LET application == Application(n, appl_num)
         IN IF ((application \div 65536) % 256) = 128
              THEN TRUE
              ELSE MonitorLoop(info, n, appl_num + 1)
    ELSE FALSE

\* the probe taking every device for a monitor
is_usb_monitorAlways(info, n) == TRUE

\* the probe looking at the first application only
is_usb_monitorFirstOnly(info, n) ==
  /\ 0 < info.num_applications
  /\ ((Application(n, 0) \div 65536) % 256) = 128

\* bool is_usb_monitor ( const hiddev_devinfo& device_info, int fd )
is_usb_monitor(info, n) == MonitorLoop(info, n, 0)

\* the sum taken from the brightness variable, which holds what was computed
\* for the device before, instead of usage_ref.value
RelativeBrightnessCarried(value, amt) ==
  { min(255, max(0, WrapAdd(brightness, amt))) }

\* brightness = usage_ref.value + amount; max( 0, . ); min( 255, . ).
\* The sum is a signed int addition: when it overflows the behaviour is
\* undefined, and a build either wraps the sum in 32 bits or carries it out
\* in a wider register before clamping.
RelativeBrightness(value, amt) ==
  IF Overflows(value, amt)
    THEN { min(255, max(0, WrapAdd(value, amt))),
           IF amt > 0 THEN 255 ELSE 0 }
    ELSE { min(255, max(0, value + amt)) }

\* the assignment left out: usage_ref.value keeps its initial zero
InitialUsageValueUnset(b) == 0

\* usage_ref.value = brightness  (before the mode dispatch)
InitialUsageValue(b) == b

\* the DETECT branch left out
DetectBranchNever(m) == FALSE

\* if ( mode == DETECT )
DetectBranch(m) == m = DETECT

\* the exit left out: an unsupported device is only warned about
UnsupportedExitNever(info, f) == FALSE

\* if ( !is_supported ( device_info ) ) { ...; if ( !force ) exit ( 2 ); }
UnsupportedExit(info, f) == ~is_supported(info) /\ ~f

\* the empty check left out
FilesEmptyNever(f) == FALSE

\* if ( files.empty() )
FilesEmpty(f) == f = << >>

\* the SET branch left out: every mode takes the branch of the reads
DispatchGetOnly(m) == "get_usage"

\* the branches exchanged: every mode but SET takes the branch of the writes
DispatchExchanged(m) == IF m = SET THEN "get_usage" ELSE "set_usage"

\* if ( mode == SET ) { HIDIOCSUSAGE ... } else { HIDIOCGUSAGE ... }
Dispatch(m) == IF m = SET THEN "set_usage" ELSE "get_usage"

\* if ( ! silent && first_device ) printf("hiddev driver version ...")
PrintsVersion(s, first) == ~s /\ first

-----------------------------------------------------------------------------
(* State *)

NoPrev == [mode |-> -1, brightness |-> 0, wrote |-> {}]

Call(op, ok, value) ==
  [cand |-> it, node |-> fd, op |-> op, ok |-> ok, value |-> value]

Line(kind, value) == [kind |-> kind, cand |-> it, value |-> value]

\* the state of main() when the option loop starts
Entry ==
  /\ pc = "getopt"
  /\ nopts = 0
  /\ nargs = 0
  /\ silent = FALSE
  /\ force = FALSE
  /\ mode = GET
  /\ open_mode = O_RDONLY
  /\ brightness = 0
  /\ amount = 0
  /\ files = << >>
  /\ it = 1
  /\ fd = -1
  /\ first_device = TRUE
  /\ device_info = Uninit
  /\ usage_value = 0
  /\ handles = {}
  /\ calls = << >>
  /\ out = << >>
  /\ exitCode = -1

\* the brightness each display holds when the program is first started
BatchValues == [n \in Nodes |-> CASE n = 1 -> 5 [] n = 2 -> 250 [] OTHER -> 160]

Init ==
  /\ Entry
  /\ devValue = BatchValues
  /\ runs = 1
  /\ prev = NoPrev

progV == << nopts, nargs, silent, force, mode, open_mode, amount, files >>
envV == << devValue, runs, prev >>

\* exit( code )
Exit(code) ==
  /\ pc' = "exited"
  /\ exitCode' = code

-----------------------------------------------------------------------------
(* Command-line parsing: main(), lines 322-406 *)

OptionWords ==
  { "-a", "-b", "-h", "-s", "-d", "-l", "--force", "-f" }

EndOfOptions == "--"

\* one iteration of the getopt loop
GetOpt ==
  /\ pc = "getopt"
  /\ \E word \in (IF nopts < MaxOpts THEN OptionWords ELSE {})
                     \cup { EndOfOptions } :
       LET c == IF word = EndOfOptions THEN "-1" ELSE getopt_long(word)
       IN /\ nopts' = IF c = "-1" THEN 0 ELSE nopts + 1
          /\ silent' = IF c = "s" THEN TRUE ELSE silent
          /\ force' = IF c = "f" THEN TRUE ELSE force
          /\ mode' = IF c = "d" THEN DETECT ELSE mode
          /\ out' = CASE c = "a" -> Append(out, Line("about", 0))
                      [] c = "h" -> Append(out, Line("help", 0))
                      [] c = "l" -> Append(out, Line("list", 0))
                      [] c = "?" -> out \o << Line("unknown-option", 0),
                                              Line("help", 0) >>
                      [] OTHER -> out
          /\ CASE c \in { "a", "h", "l" } -> Exit(ExitInfo)
               [] c = "?" -> Exit(ExitUnknownOption)
               [] c = "-1" -> pc' = "params" /\ UNCHANGED exitCode
               [] OTHER -> UNCHANGED << pc, exitCode >>
  /\ UNCHANGED << nargs, open_mode, brightness, amount, files, it, fd,
                  first_device, device_info, usage_value, handles, calls >>
  /\ UNCHANGED envV

\* one iteration of the parameter loop on the parameter str
Param(str) ==
  /\ pc = "params"
  /\ nargs < MaxArgs
  /\ nargs' = nargs + 1
  /\ IF IsBrightnessParam(mode, str)
       THEN /\ IF IsRelativeParam(str)
                 THEN /\ mode' = SETREL
                      /\ amount' = atoi(str)
                      /\ UNCHANGED brightness
                 ELSE /\ mode' = SET
                      /\ brightness' = atoi(str)
                      /\ UNCHANGED amount
            /\ UNCHANGED files
       ELSE /\ files' = Append(files, str)
            /\ UNCHANGED << mode, brightness, amount >>
  /\ UNCHANGED << pc, nopts, silent, force, open_mode, it, fd, first_device,
                  device_info, usage_value, handles, calls, out, exitCode >>
  /\ UNCHANGED envV

\* the parameters a batch invocation is given
BatchWords ==
  { Path(1), Path(2), Path(3), Path(4),
    << "3", "0", "0" >>, << "-", "5", "0" >>,
    << "+", "2", "1", "4", "7", "4", "8", "3", "6", "4", "7" >> }

\* a batch invocation names a path at most once
NextParam ==
  \E str \in BatchWords :
    /\ \A i \in 1 .. Len(files) : files[i] # str
    /\ Param(str)

\* after the parameter loop: the empty check, open_mode, notice()
EndParams ==
  /\ pc = "params"
  /\ nargs' = 0
  /\ IF FilesEmpty(files)
       THEN /\ out' = Append(out, Line("help", 0))
            /\ Exit(ExitNoFiles)
            /\ UNCHANGED open_mode
       ELSE /\ open_mode' = OpenModeFor(mode)
            /\ out' = IF silent THEN out ELSE Append(out, Line("notice", 0))
            /\ pc' = "open"
            /\ UNCHANGED exitCode
  /\ UNCHANGED << nopts, silent, force, mode, brightness, amount, files, it,
                  fd, first_device, device_info, usage_value, handles, calls >>
  /\ UNCHANGED envV

-----------------------------------------------------------------------------
(* The device loop: main(), lines 408-519 *)

\* break instead of continue: the loop is left
NextCandidateBreak ==
  /\ it' = Len(files) + 1
  /\ pc' = "open"

\* the increment left out: the loop takes the same candidate again
NextCandidateStay ==
  /\ it' = it
  /\ pc' = "open"

\* continue / the end of the loop body: ++it
NextCandidate ==
  /\ it' = it + 1
  /\ pc' = "open"

\* it == files.end(): main() falls off its end, the exit status is 0
LoopEnd ==
  /\ pc = "open"
  /\ it > Len(files)
  /\ Exit(ExitReturn)
  /\ UNCHANGED << brightness, it, fd, first_device, device_info, usage_value,
                  handles, calls, out >>
  /\ UNCHANGED progV
  /\ UNCHANGED envV

\* fd = open( *it, open_mode )
Open ==
  /\ pc = "open"
  /\ it <= Len(files)
  /\ \E ok \in OpenOutcomes(files[it]) :
       /\ calls' = Append(calls, [cand |-> it, node |-> NodeOf(files[it]),
                                   op |-> "open", ok |-> ok,
                                   value |-> open_mode])
       /\ IF ok
            THEN /\ fd' = NodeOf(files[it])
                 /\ handles' = handles \cup { it }
                 /\ pc' = "version"
                 /\ UNCHANGED << it, out >>
            ELSE /\ fd' = -1
                 /\ out' = Append(out, Line("perror", 0))
                 /\ NextCandidate
                 /\ UNCHANGED handles
  /\ UNCHANGED << brightness, first_device, device_info, usage_value,
                  exitCode >>
  /\ UNCHANGED progV
  /\ UNCHANGED envV

\* ioctl(fd, HIDIOCGVERSION, &version) and the version line
Version ==
  /\ pc = "version"
  /\ calls' = Append(calls, Call("version", Device(fd).kind = "hid", 0))
  /\ out' = IF PrintsVersion(silent, first_device)
              THEN Append(out, Line("version", 0))
              ELSE out
  /\ pc' = "devinfo"
  /\ UNCHANGED << brightness, it, fd, first_device, device_info, usage_value,
                  handles, exitCode >>
  /\ UNCHANGED progV
  /\ UNCHANGED envV

\* ioctl(fd, HIDIOCGDEVINFO, &device_info), then the mode and support checks
DevInfo ==
  /\ pc = "devinfo"
  /\ calls' = Append(calls, Call("devinfo", Device(fd).kind = "hid", 0))
  /\ LET info == DevInfoOf(fd)
     IN
       /\ device_info' = info
       /\ IF DetectBranch(mode)
            THEN /\ pc' = "detect"
                 /\ UNCHANGED << out, exitCode >>
            ELSE IF ~is_supported(info)
              THEN /\ out' = Append(out, Line("unsupported", 0))
                   /\ IF UnsupportedExit(info, force)
                        THEN Exit(ExitUnsupported)
                        ELSE pc' = "monitor" /\ UNCHANGED exitCode
              ELSE /\ pc' = "monitor"
                   /\ UNCHANGED << out, exitCode >>
  /\ UNCHANGED << brightness, it, fd, first_device, usage_value, handles >>
  /\ UNCHANGED progV
  /\ UNCHANGED envV

\* the HIDIOCAPPLICATION calls is_usb_monitor makes, from index appl_num on
RECURSIVE ProbeCalls(_, _, _)
ProbeCalls(info, n, appl_num) ==
  IF appl_num < info.num_applications
    THEN LET application == Application(n, appl_num)
             call == Call("application", application # -1, application)
         IN IF ((application \div 65536) % 256) = 128
              THEN << call >>
              ELSE << call >> \o ProbeCalls(info, n, appl_num + 1)
    ELSE << >>

\* the DETECT branch: is_usb_monitor, the detection line, continue
Detect ==
  /\ pc = "detect"
  /\ out' = IF is_usb_monitor(device_info, fd)
              THEN Append(out, Line("detect",
                                    IF is_supported(device_info) THEN 1 ELSE 0))
              ELSE out
  /\ calls' = calls \o ProbeCalls(device_info, fd, 0)
  /\ NextCandidate
  /\ UNCHANGED << brightness, fd, first_device, device_info, usage_value,
                  handles, exitCode >>
  /\ UNCHANGED progV
  /\ UNCHANGED envV

\* if (! is_usb_monitor( device_info, fd )) { ...; continue; }
Monitor ==
  /\ pc = "monitor"
  /\ IF ~is_usb_monitor(device_info, fd)
       THEN /\ out' = Append(out, Line("notmonitor", 0))
            /\ NextCandidate
       ELSE /\ pc' = "init"
            /\ UNCHANGED << it, out >>
  /\ calls' = calls \o ProbeCalls(device_info, fd, 0)
  /\ UNCHANGED << brightness, fd, first_device, device_info, usage_value,
                  handles, exitCode >>
  /\ UNCHANGED progV
  /\ UNCHANGED envV

\* ioctl(fd, HIDIOCINITREPORT, 0), then usage_ref and rep_info are filled in
InitReport ==
  /\ pc = "init"
  /\ \E ok \in IoctlOutcomes(fd) :
       /\ calls' = Append(calls, Call("init-report", ok, 0))
       /\ IF ok
            THEN /\ usage_value' = InitialUsageValue(brightness)
                 /\ pc' = Dispatch(mode)
                 /\ UNCHANGED << out, exitCode >>
            ELSE /\ out' = Append(out, Line("fatal", 0))
                 /\ Exit(ExitInitFailed)
                 /\ UNCHANGED usage_value
  /\ UNCHANGED << brightness, it, fd, first_device, device_info, handles >>
  /\ UNCHANGED progV
  /\ UNCHANGED envV

\* a HIDIOCSUSAGE call that is tried again when it fails
SUsageRetry(at, next) ==
  /\ pc = at
  /\ \E ok \in IoctlOutcomes(fd) :
       /\ calls' = Append(calls, Call("set-usage", ok, usage_value))
       /\ pc' = IF ok THEN next ELSE at
       /\ out' = IF ok THEN out ELSE Append(out, Line("perror", 0))
  /\ UNCHANGED << brightness, it, fd, first_device, device_info, usage_value,
                  handles, exitCode >>
  /\ UNCHANGED progV
  /\ UNCHANGED envV

\* a HIDIOCSUSAGE call: on failure perror and exit( 2 )
SUsage(at, next) ==
  /\ pc = at
  /\ \E ok \in IoctlOutcomes(fd) :
       /\ calls' = Append(calls, Call("set-usage", ok, usage_value))
       /\ IF ok
            THEN /\ pc' = next
                 /\ UNCHANGED << out, exitCode >>
            ELSE /\ out' = Append(out, Line("perror", 0))
                 /\ Exit(ExitUsageFailed)
  /\ UNCHANGED << brightness, it, fd, first_device, device_info, usage_value,
                  handles >>
  /\ UNCHANGED progV
  /\ UNCHANGED envV

\* a HIDIOCSREPORT call: the display takes the value; on failure exit( 3 )
SReport(at, next) ==
  /\ pc = at
  /\ \E ok \in IoctlOutcomes(fd) :
       /\ calls' = Append(calls, Call("set-report", ok, 0))
       /\ IF ok
            THEN /\ devValue' = [devValue EXCEPT ![fd] = Snap(fd, usage_value)]
                 /\ pc' = next
                 /\ UNCHANGED << out, exitCode >>
            ELSE /\ out' = Append(out, Line("perror", 0))
                 /\ Exit(ExitReportFailed)
                 /\ UNCHANGED devValue
  /\ UNCHANGED << brightness, it, fd, first_device, device_info, usage_value,
                  handles, runs, prev >>
  /\ UNCHANGED progV

\* a HIDIOCGUSAGE call: usage_ref.value receives the display's value; on
\* failure perror and exit( 2 )
GUsage(at, next) ==
  /\ pc = at
  /\ \E ok \in IoctlOutcomes(fd) :
       /\ calls' = Append(calls, Call("get-usage", ok,
                                       IF ok THEN devValue[fd] ELSE 0))
       /\ IF ok
            THEN /\ usage_value' = devValue[fd]
                 /\ pc' = next
                 /\ UNCHANGED << out, exitCode >>
            ELSE /\ out' = Append(out, Line("perror", 0))
                 /\ Exit(ExitUsageFailed)
                 /\ UNCHANGED usage_value
  /\ UNCHANGED << brightness, it, fd, first_device, device_info, handles >>
  /\ UNCHANGED progV
  /\ UNCHANGED envV

\* if ( !brief ) cout << *it << ": BRIGHTNESS="; cout << usage_ref.value
PrintBrightness == Append(out, Line("brightness", usage_value))

SetUsage == SUsage("set_usage", "set_report")

SetReport == SReport("set_report", "close")

GetUsage == GUsage("get_usage", "get_report")

\* ioctl(fd, HIDIOCGREPORT, &rep_info) of the first read; in SETREL mode the
\* new brightness is computed, otherwise the value is printed
GetReport ==
  /\ pc = "get_report"
  /\ \E ok \in IoctlOutcomes(fd) :
       /\ calls' = Append(calls, Call("get-report", ok, 0))
       /\ IF ~ok
            THEN /\ out' = Append(out, Line("perror", 0))
                 /\ Exit(ExitReportFailed)
                 /\ UNCHANGED << brightness, usage_value >>
            ELSE IF mode = SETREL
              THEN /\ \E b \in RelativeBrightness(usage_value, amount) :
                        /\ brightness' = b
                        /\ usage_value' = b
                   /\ pc' = "rel_set_usage"
                   /\ UNCHANGED << out, exitCode >>
              ELSE /\ out' = PrintBrightness
                   /\ pc' = "close"
                   /\ UNCHANGED << brightness, usage_value, exitCode >>
  /\ UNCHANGED << it, fd, first_device, device_info, handles >>
  /\ UNCHANGED progV
  /\ UNCHANGED envV

RelSetUsage == SUsage("rel_set_usage", "rel_set_report")

RelSetReport == SReport("rel_set_report", "readback_usage")

\* the readback left out: usage_ref.value keeps the computed brightness
ReadbackUsageSkipped ==
  /\ pc = "readback_usage"
  /\ pc' = "readback_report"
  /\ UNCHANGED << brightness, it, fd, first_device, device_info, usage_value,
                  handles, calls, out, exitCode >>
  /\ UNCHANGED progV
  /\ UNCHANGED envV

ReadbackUsage == GUsage("readback_usage", "readback_report")

\* ioctl(fd, HIDIOCGREPORT, &rep_info) of the readback, then the value is
\* printed
ReadbackReport ==
  /\ pc = "readback_report"
  /\ \E ok \in IoctlOutcomes(fd) :
       /\ calls' = Append(calls, Call("get-report", ok, 0))
       /\ IF ok
            THEN /\ out' = PrintBrightness
                 /\ pc' = "close"
                 /\ UNCHANGED exitCode
            ELSE /\ out' = Append(out, Line("perror", 0))
                 /\ Exit(ExitReportFailed)
  /\ UNCHANGED << brightness, it, fd, first_device, device_info, usage_value,
                  handles >>
  /\ UNCHANGED progV
  /\ UNCHANGED envV

\* close(fd); first_device=false; and the next iteration
Close ==
  /\ pc = "close"
  /\ calls' = Append(calls, Call("close", TRUE, 0))
  /\ handles' = handles \ { it }
  /\ first_device' = FALSE
  /\ NextCandidate
  /\ UNCHANGED << brightness, fd, device_info, usage_value, out, exitCode >>
  /\ UNCHANGED progV
  /\ UNCHANGED envV

Next ==
  \/ GetOpt
  \/ NextParam
  \/ EndParams
  \/ LoopEnd
  \/ Open
  \/ Version
  \/ DevInfo
  \/ Detect
  \/ Monitor
  \/ InitReport
  \/ SetUsage
  \/ SetReport
  \/ GetUsage
  \/ GetReport
  \/ RelSetUsage
  \/ RelSetReport
  \/ ReadbackUsage
  \/ ReadbackReport
  \/ Close

Spec == Init /\ [][Next]_vars

\* main() is a sequential program whose system calls return: it takes its
\* next step whenever it has one
SpecLive == Init /\ [][Next]_vars /\ WF_vars(Next)

-----------------------------------------------------------------------------
(* Sessions: the program is started again on the same devices *)

\* the parameters of an invocation in a session: device nodes and at most
\* one absolute brightness
SessionWords ==
  { Path(1), Path(2),
    << "0" >>, << "1", "6", "0" >>, << "2", "5", "5" >>,
    << "3", "0", "0" >> }

SessionParam ==
  \E str \in SessionWords :
    /\ IF IsBrightnessParam(mode, str)
         THEN mode = GET
         ELSE Len(files) < MaxSessionFiles
    /\ Param(str)

\* the nodes the invocation has written a report to
Wrote ==
  { calls[i].node : i \in { j \in 1 .. Len(calls) :
                              calls[j].op = "set-report" /\ calls[j].ok } }

\* the process has ended and the program is started again: main() is entered
\* with its locals as declared; the displays keep their values
Rerun ==
  /\ pc = "exited"
  /\ runs < MaxRuns
  /\ runs' = runs + 1
  /\ prev' = [mode |-> mode, brightness |-> brightness, wrote |-> Wrote]
  /\ pc' = "getopt"
  /\ nopts' = 0
  /\ nargs' = 0
  /\ silent' = FALSE
  /\ force' = FALSE
  /\ mode' = GET
  /\ open_mode' = O_RDONLY
  /\ brightness' = 0
  /\ amount' = 0
  /\ files' = << >>
  /\ it' = 1
  /\ fd' = -1
  /\ first_device' = TRUE
  /\ device_info' = Uninit
  /\ usage_value' = 0
  /\ handles' = {}
  /\ calls' = << >>
  /\ out' = << >>
  /\ exitCode' = -1
  /\ UNCHANGED devValue

InitSession ==
  /\ Entry
  /\ devValue = BatchValues
  /\ runs = 1
  /\ prev = NoPrev

NextSession ==
  \/ GetOpt
  \/ SessionParam
  \/ EndParams
  \/ LoopEnd
  \/ Open
  \/ Version
  \/ DevInfo
  \/ Detect
  \/ Monitor
  \/ InitReport
  \/ SetUsage
  \/ SetReport
  \/ GetUsage
  \/ GetReport
  \/ Close
  \/ Rerun

SpecSession == InitSession /\ [][NextSession]_vars

-----------------------------------------------------------------------------
(* Vocabulary of the properties *)

WriteOps == { "init-report", "set-usage", "set-report" }

EngineOps == { "init-report", "get-usage", "get-report", "set-usage",
               "set-report" }

Exited == pc = "exited"

\* the (vendorId, productId) pair is the key of a registry entry
Registered(info) ==
  \E e \in init_device_database :
    e.vendor = info.vendor % 65536 /\ e.product = info.product % 65536

\* some application of the node, among the first info.num_applications, is
\* on the monitor usage page
HasMonitorApp(info, n) ==
  \E a \in 0 .. (info.num_applications - 1) :
    (Application(n, a) \div 65536) % 256 = 128

\* the two classifications of each node of the table
SupportedNode == [n \in Nodes |-> Registered(DevInfoOf(n))]

MonitorNode == [n \in Nodes |-> HasMonitorApp(DevInfoOf(n), n)]

LastCall == calls[Len(calls)]

\* the calls made for candidate k
CallsOf(k) == { i \in 1 .. Len(calls) : calls[i].cand = k }

LinesOf(kind) == { i \in 1 .. Len(out) : out[i].kind = kind }

-----------------------------------------------------------------------------
(* C1: In Detect mode no write-class directive (init-report, set-usage,    *)
(* set-report) is issued to any device, whatever the candidates and their  *)
(* identities are; and once the mode is Detect no parameter takes it out   *)
(* of Detect (a numeric parameter is a path then, not a brightness).       *)
C1_DetectNeverWrites ==
  /\ [](mode = DETECT => \A i \in 1 .. Len(calls) : calls[i].op \notin WriteOps)
  /\ [][mode = DETECT /\ pc = "params" => mode' = DETECT]_vars

\* a Detect run that has ended after reporting a supported and an
\* unsupported monitor and passing a device that is no monitor
C1_Witness ==
  /\ Exited
  /\ mode = DETECT
  /\ \E i \in LinesOf("detect") : out[i].value = 1
  /\ \E i \in LinesOf("detect") : out[i].value = 0
  /\ Len(files) = 3
  /\ Cardinality(LinesOf("detect")) = 2
  /\ \E i \in 1 .. Len(calls) : calls[i].op = "open" /\ calls[i].ok
                                   /\ calls[i].node = 4

(* C2: In a non-Detect run, a device that opened and whose identity is not *)
(* in the registry ends the process with exit code 2 when force is not     *)
(* set: no directive is issued to it and no later candidate is opened.     *)
(* With force set the run goes on to the monitor check of that device.     *)
C2_UnsupportedAborts ==
  \A i \in 1 .. Len(calls) :
    ( /\ calls[i].op = "devinfo"
      /\ calls[i].ok
      /\ mode # DETECT
      /\ ~Registered(DevInfoOf(calls[i].node)) )
    => IF force
         THEN IF i = Len(calls)
                THEN pc = "monitor" /\ exitCode = -1 /\ fd = calls[i].node
                ELSE calls[i + 1].op = "application"
                     /\ calls[i + 1].cand = calls[i].cand
         ELSE i = Len(calls) /\ Exited /\ exitCode = 2

\* the second of three candidates is unsupported, force is not set, and the
\* process has ended there
C2_Witness ==
  /\ Exited
  /\ exitCode = 2
  /\ ~force
  /\ mode # DETECT
  /\ Len(files) = 3
  /\ it = 2
  /\ LastCall.op = "devinfo"
  /\ ~Registered(DevInfoOf(LastCall.node))
  /\ \E i \in CallsOf(1) : calls[i].op \in EngineOps

\* clamp(c + d, 0, 255) for c in [0, 255] and any int d, as a number
ClampSum(c, d) ==
  IF d > 255 - c THEN 255 ELSE IF d < 0 - c THEN 0 ELSE c + d

\* the node is a supported monitor that keeps exactly what is written to it
Idealized(n) ==
  /\ Device(n).kind = "hid"
  /\ Device(n).snap = 1
  /\ Registered(DevInfoOf(n))
  /\ HasMonitorApp(DevInfoOf(n), n)

(* C3: The brightness value handed to every set-usage directive, in        *)
(* SetAbsolute and in SetRelative mode, lies in [0, 255] for every         *)
(* requested value and every delta.                                        *)
C3_WrittenValueInRange ==
  \A i \in 1 .. Len(calls) :
    (calls[i].op = "set-usage" /\ calls[i].ok) => calls[i].value \in 0 .. 255

(* C4: For every current value c in [0, 255] and every delta d, a          *)
(* SetRelative(d) run on an idealized supported monitor writes             *)
(* clamp(c + d, 0, 255) and reports exactly that value.                    *)
C4_RelativeIsClampedSum ==
  mode = SETREL =>
    \A i \in 3 .. Len(calls) :
      ( /\ calls[i].op = "set-usage"
        /\ calls[i].ok
        /\ Idealized(calls[i].node)
        /\ calls[i - 2].op = "get-usage"
        /\ calls[i - 2].value \in 0 .. 255 )
      => /\ calls[i].value = ClampSum(calls[i - 2].value, amount)
         /\ \A j \in LinesOf("brightness") :
              out[j].cand = calls[i].cand
              => out[j].value = ClampSum(calls[i - 2].value, amount)

(* C5: For every brightness v in [0, 255], a SetAbsolute(v) run on an      *)
(* idealized device followed by a Query run on the same device reports v.  *)
C5_SetThenGet ==
  ( /\ mode = GET
    /\ prev.mode = SET
    /\ prev.brightness \in 0 .. 255 )
  => \A j \in LinesOf("brightness") :
       LET n == NodeOf(files[out[j].cand])
       IN (n \in prev.wrote /\ Idealized(n)) => out[j].value = prev.brightness

\* the first run has set the idealized display to 160 and the second run,
\* a query of the same display, has ended after reporting its value
C5_Witness ==
  /\ Exited
  /\ exitCode = 0
  /\ runs = 2
  /\ mode = GET
  /\ prev.mode = SET
  /\ prev.brightness = 160
  /\ 1 \in prev.wrote
  /\ devValue[1] = 160
  /\ \E j \in LinesOf("brightness") : NodeOf(files[out[j].cand]) = 1

(* C6: Every device handle that was opened is closed before the driver     *)
(* moves on to the next candidate, in every mode and on every path that    *)
(* does not end the process: at most one handle is open at any moment and  *)
(* none is open when the next candidate is about to be opened.             *)
C6_HandleClosedBeforeNext ==
  /\ Cardinality(handles) <= 1
  /\ pc = "open" => handles = {}

\* the candidates whose open() succeeded
Opened ==
  { calls[i].cand : i \in { j \in 1 .. Len(calls) :
                               calls[j].op = "open" /\ calls[j].ok } }

(* C7: When output is not suppressed the driver version line is printed    *)
(* at most once per run, and only for the first successfully opened        *)
(* device, whatever the mode and whatever happens to that device.          *)
C7_VersionOnce ==
  /\ Cardinality(LinesOf("version")) <= 1
  /\ \A j \in LinesOf("version") :
       \A k \in Opened : out[j].cand <= k

\* the process ended inside the option loop
ExitedInOptions == Exited /\ nopts > 0

\* the last call made is a failed directive of one of the kinds
LastFailed(ops) ==
  calls # << >> /\ LastCall.op \in ops /\ ~LastCall.ok

\* the run stands at an opened device that is not in the registry, in a
\* non-Detect run without force
UnsupportedMet ==
  /\ calls # << >>
  /\ LastCall.op = "devinfo"
  /\ mode # DETECT
  /\ ~force
  /\ ~Registered(DevInfoOf(LastCall.node))

\* the parameter loop has ended with no device path
NoDevicePath == Exited /\ ~ExitedInOptions /\ files = << >>

\* the exit code as the claim gives it
ClaimedExitCode ==
  CASE NoDevicePath -> 1
    [] LastFailed({ "init-report" }) -> 1
    [] UnsupportedMet -> 2
    [] LastFailed({ "get-usage", "set-usage" }) -> 2
    [] LastFailed({ "get-report", "set-report" }) -> 3
    [] OTHER -> 0

(* C8 as claimed: the exit code is 1 when no device path is given or       *)
(* init-report fails, 2 when an unsupported device is met without force or *)
(* a get-usage or set-usage fails, 3 when a get-report or set-report       *)
(* fails, and 0 in every other case.                                       *)
C8_ExitCodeAsClaimed == Exited => exitCode = ClaimedExitCode

(* C8 as amended: the exit code is 2 when the option loop meets an unknown *)
(* option; otherwise it is 1 when no device path is given or init-report   *)
(* fails, 2 when an unsupported device is met without force or a get-usage *)
(* or set-usage fails, 3 when a get-report or set-report fails, and 0 in   *)
(* every other case.                                                       *)
C8_ExitCode ==
  Exited => exitCode = IF ExitedInOptions /\ LinesOf("unknown-option") # {}
                         THEN 2
                         ELSE ClaimedExitCode

\* a run that completed the transaction of its first candidate and ended
\* with 3 on a failed set-report of the second
C8_Witness ==
  /\ Exited
  /\ exitCode = 3
  /\ mode = SET
  /\ it = 2
  /\ LastFailed({ "set-report" })
  /\ \E i \in CallsOf(1) : calls[i].op = "close"

\* candidate k was opened and is no monitor
NonMonitor(k) ==
  /\ k \in Opened
  /\ ~MonitorNode[NodeOf(files[k])]

\* the open() of candidate k failed
OpenFailed(k) ==
  \E i \in CallsOf(k) : calls[i].op = "open" /\ ~calls[i].ok

\* candidate k is supported, or force is set
PassesSupport(k) == force \/ SupportedNode[NodeOf(files[k])]

(* C9: In a non-Detect run a candidate whose open fails, or that is        *)
(* classified as no monitor, is skipped: no init-report and no get or set  *)
(* directive is issued to it, the process does not end at it, and the      *)
(* driver goes on with the next candidate.                                 *)
C9_SkipsRecoverable ==
  (mode # DETECT /\ pc \notin { "getopt", "params" }) =>
    \A k \in 1 .. Len(files) :
      ( \/ OpenFailed(k)
        \/ (NonMonitor(k) /\ PassesSupport(k)
            /\ \E i \in CallsOf(k) : calls[i].op = "application") )
      => /\ \A i \in CallsOf(k) : calls[i].op \notin EngineOps
         /\ it > k
         /\ (it = k + 1 /\ CallsOf(k + 1) = {})
              => (pc = "open" /\ exitCode = -1) \/ (Exited /\ exitCode = 0
                                                       /\ k = Len(files))

\* a non-Detect run in which the first candidate failed to open, the second
\* was skipped as no monitor and the third is in its transaction
C9_Witness ==
  /\ mode = GET
  /\ Len(files) = 3
  /\ OpenFailed(1)
  /\ NonMonitor(2)
  /\ it = 3
  /\ pc = "get_report"

\* a fatal condition has occurred
FatalMet ==
  \/ NoDevicePath
  \/ ExitedInOptions
  \/ LastFailed(EngineOps)
  \/ UnsupportedMet

(* C10: When no fatal condition occurs, a run of the driver (the options   *)
(* parsed, at least one device path given) processes every candidate and   *)
(* ends with exit code 0, even if some or all candidates failed to open or *)
(* were skipped as no monitor.                                             *)
C10_NormalCompletion ==
  (Exited /\ ~FatalMet) =>
    /\ exitCode = 0
    /\ it = Len(files) + 1
    /\ \A k \in 1 .. Len(files) :
         \E i \in CallsOf(k) : calls[i].op = "open"

\* a run that ended with 0 after a failed open, a skipped non-monitor and a
\* completed transaction
C10_Witness ==
  /\ Exited
  /\ exitCode = 0
  /\ mode # DETECT
  /\ Len(files) = 3
  /\ \E k \in 1 .. 3 : OpenFailed(k)
  /\ \E k \in 1 .. 3 : NonMonitor(k)
  /\ \E i \in 1 .. Len(calls) : calls[i].op = "close"

-----------------------------------------------------------------------------
\* the device loop has been entered (the options and parameters are parsed
\* and at least one path was given)
InDeviceLoop == pc \notin { "getopt", "params" } /\ files # << >>

\* candidate k has been dealt with: the iterator is past it
Passed(k) == it > k

\* the positions in calls of the open() calls, and of those of candidate k
OpenCalls == { i \in 1 .. Len(calls) : calls[i].op = "open" }

\* the detection lines printed for candidate k
DetectLinesOf(k) == { j \in LinesOf("detect") : out[j].cand = k }

(* C11: In Detect mode an unsupported identity never ends the process:     *)
(* every candidate is visited in input order, the device loop produces no  *)
(* exit code other than 0, and a detection line is printed for a candidate *)
(* exactly when it opened and is classified as a monitor application (the  *)
(* line tells whether its identity is in the registry).                    *)
C11_DetectVisitsAll ==
  (mode = DETECT /\ InDeviceLoop) =>
    /\ exitCode \in { -1, 0 }
    /\ Exited => it = Len(files) + 1
    /\ \A i \in OpenCalls :
         calls[i].cand = IF i = 1 THEN 1 ELSE calls[i - 1].cand + 1
    /\ \A k \in 1 .. Len(files) :
         Passed(k) =>
           /\ \E i \in CallsOf(k) : calls[i].op = "open"
           /\ Cardinality(DetectLinesOf(k)) =
                IF k \in Opened /\ ~NonMonitor(k) THEN 1 ELSE 0
           /\ \A j \in DetectLinesOf(k) :
                out[j].value = IF SupportedNode[NodeOf(files[k])]
                                 THEN 1 ELSE 0

\* a Detect run that has ended with 0: its first candidate is an unsupported
\* monitor, the second failed to open, the third is a supported monitor
C11_Witness ==
  /\ Exited
  /\ exitCode = 0
  /\ mode = DETECT
  /\ Len(files) = 3
  /\ NodeOf(files[1]) = 3
  /\ DetectLinesOf(1) # {}
  /\ OpenFailed(2)
  /\ \E j \in DetectLinesOf(3) : out[j].value = 1

(* C12: With an empty candidate list, in any mode, the process exits with  *)
(* code 1; no device is opened and no directive is issued.                 *)
C12_EmptyListExits ==
  /\ (pc \notin { "getopt", "params" } /\ ~ExitedInOptions /\ files = << >>)
       => (Exited /\ exitCode = 1 /\ calls = << >> /\ handles = {})
  /\ (Exited /\ exitCode = 1 /\ calls = << >>) => out[Len(out)].kind = "help"

\* a run that was given a relative brightness and no path, and has ended
C12_Witness ==
  /\ Exited
  /\ exitCode = 1
  /\ files = << >>
  /\ calls = << >>
  /\ mode = SETREL
  /\ amount = -50

(* C13: Every candidate is opened read-only when the mode is Query or      *)
(* Detect and read-write when the mode is SetAbsolute or SetRelative; the  *)
(* access mode is the same for all candidates of a run.                    *)
C13_AccessMode ==
  /\ \A i \in OpenCalls :
       calls[i].value = IF mode \in { GET, DETECT } THEN O_RDONLY ELSE O_RDWR
  /\ \A i \in OpenCalls : calls[i].value = calls[1].value

\* a run in a Set mode that has opened two candidates read-write, the open
\* of the first one failed
C13_Witness ==
  /\ mode \in { SET, SETREL }
  /\ Cardinality(OpenCalls) = 2
  /\ \E i \in OpenCalls : ~calls[i].ok
  /\ \E i \in OpenCalls : calls[i].ok /\ calls[i].value = O_RDWR
  /\ pc = "version"

-----------------------------------------------------------------------------
\* the (vendorId, productId) keys of the entries init_device_database adds
RegistryKeys ==
  { << RegistryInserts[i].vendor, RegistryInserts[i].product >> :
      i \in 1 .. Len(RegistryInserts) }

\* identities is_supported is asked about: the registered vendors and
\* products, their neighbours, and the same 16 bits read as a signed field
\* or with higher bits set
VendorSamples ==
  { APPLE, SAMSUNG, APPLE - 65536, SAMSUNG + 65536, APPLE + 1, 4660, 0 }

ProductSamples ==
  LET ids == { STUDIO_DISPLAY_15, STUDIO_DISPLAY_17, CINEMA_DISPLAY_23_OLD,
               CINEMA_DISPLAY_20_OLD, CINEMA_DISPLAY_24, CINEMA_DISPLAY_30,
               S1, STUDIO_DISPLAY_15 + 1, S1 - 1 }
  IN ids \cup { p - 65536 : p \in ids } \cup { p + 65536 : p \in ids }
         \cup { 0, 1 }

Identity(v, p) == [vendor |-> v, product |-> p, num_applications |-> 0]

\* the 16-bit key of an identity
KeyOf(info) == << info.vendor % 65536, info.product % 65536 >>

\* is_supported agrees with the exact match of the 16-bit key on every
\* sampled identity
LookupMatchesKeys ==
  \A v \in VendorSamples : \A p \in ProductSamples :
    is_supported(Identity(v, p)) <=> KeyOf(Identity(v, p)) \in RegistryKeys

\* the registry holds one entry for each key that was inserted
RegistryHasNoDuplicates ==
  /\ \A a \in supportedDevices : \A b \in supportedDevices :
       (a.vendor = b.vendor /\ a.product = b.product) => a = b
  /\ { << e.vendor, e.product >> : e \in supportedDevices } = RegistryKeys

(* C14: Device classification is keyed by the exact 16-bit pair:           *)
(* is_supported is true exactly when (vendor & 0xFFFF, product & 0xFFFF)   *)
(* is the key of a registry entry; it gives the same answer whenever it is *)
(* asked about the same identity in a run; and the registry built by       *)
(* init_device_database holds no two entries with the same key.            *)
C14_ExactKeyLookup ==
  /\ LookupMatchesKeys
  /\ RegistryHasNoDuplicates
  /\ \A j \in LinesOf("detect") :
       (out[j].value = 1) <=>
         KeyOf(DevInfoOf(NodeOf(files[out[j].cand]))) \in RegistryKeys
  /\ \A j \in LinesOf("unsupported") :
       KeyOf(DevInfoOf(NodeOf(files[out[j].cand]))) \notin RegistryKeys
  /\ \A k \in 1 .. Len(files) :
       ( /\ mode # DETECT
         /\ \E i \in CallsOf(k) : calls[i].op = "application"
         /\ KeyOf(DevInfoOf(NodeOf(files[k]))) \notin RegistryKeys )
       => \E j \in LinesOf("unsupported") : out[j].cand = k

\* a Detect run that has classified two supported displays (their product
\* ids are negative as signed 16-bit fields) and an unsupported one
C14_Witness ==
  /\ Exited
  /\ mode = DETECT
  /\ Len(files) = 3
  /\ files[1] = Path(1)
  /\ files[2] = Path(3)
  /\ files[3] = Path(2)
  /\ DevInfoOf(1).product < 0
  /\ \E j \in DetectLinesOf(1) : out[j].value = 1
  /\ \E j \in DetectLinesOf(2) : out[j].value = 0
  /\ \E j \in DetectLinesOf(3) : out[j].value = 1

-----------------------------------------------------------------------------
\* the query for application i of node n succeeds and its result has 0x80
\* in bits 16 to 23
MonitorAppAt(n, i) ==
  /\ Application(n, i) # -1
  /\ (Application(n, i) \div 65536) % 256 = 128

\* the device info of node n announcing num applications
InfoWith(n, num) ==
  [vendor |-> Device(n).vendor, product |-> Device(n).product,
   num_applications |-> num]

\* on every node, for every announced number of applications, the probe is
\* true exactly when one of the announced applications is a monitor one
ProbeMatchesApps ==
  \A n \in Nodes : \A num \in 0 .. Len(Device(n).apps) :
    is_usb_monitor(InfoWith(n, num), n)
      <=> \E i \in 0 .. (num - 1) : MonitorAppAt(n, i)

\* the application queries made for candidate k
AppCallsOf(k) == { i \in CallsOf(k) : calls[i].op = "application" }

\* candidate k opened and its probe has returned
ProbeDone(k) ==
  /\ k \in Opened
  /\ \/ Passed(k)
     \/ it = k /\ pc \in { "init", "close" }
     \/ it = k /\ LastCall.op \in EngineOps

\* the queries the enumeration of each node makes: up to the first monitor
\* application, or all of them
QueriesNeeded ==
  [n \in Nodes |->
     LET num == DevInfoOf(n).num_applications
         hits == { i \in 0 .. (num - 1) : MonitorAppAt(n, i) }
     IN IF hits = {} THEN num
        ELSE (CHOOSE i \in hits : \A j \in hits : i <= j) + 1]

\* the nodes with a monitor application among the announced ones
HasMonitorAppAt ==
  [n \in Nodes |->
     \E a \in 0 .. (DevInfoOf(n).num_applications - 1) : MonitorAppAt(n, a)]

(* C15: is_usb_monitor is true exactly when some application index in      *)
(* 0..num_applications-1 has a successful query whose result has 0x80 in   *)
(* bits 16..23; an index whose query fails counts as no match: it neither  *)
(* makes the result true nor stops the enumeration.                        *)
C15_MonitorProbe ==
  /\ ProbeMatchesApps
  /\ \A i \in 1 .. Len(calls) :
       (calls[i].op = "application" /\ ~calls[i].ok) =>
         ~((calls[i].value \div 65536) % 256 = 128)
  /\ \A k \in 1 .. Len(files) :
       ProbeDone(k) =>
         LET n == NodeOf(files[k])
             monitor == HasMonitorAppAt[n]
         IN /\ Cardinality(AppCallsOf(k)) = QueriesNeeded[n]
            /\ mode = DETECT => (DetectLinesOf(k) # {} <=> monitor)
            /\ mode # DETECT =>
                 ((\E j \in LinesOf("notmonitor") : out[j].cand = k)
                    <=> ~monitor)

\* a Detect run that has ended: the first query of its first candidate
\* failed and the second one matched, the second candidate has a failing
\* query and no monitor application
C15_Witness ==
  /\ Exited
  /\ mode = DETECT
  /\ Len(files) = 2
  /\ \E i \in AppCallsOf(1) : ~calls[i].ok
  /\ DetectLinesOf(1) # {}
  /\ \E i \in AppCallsOf(2) : ~calls[i].ok
  /\ Cardinality(AppCallsOf(2)) = 2
  /\ DetectLinesOf(2) = {}

-----------------------------------------------------------------------------
\* the transaction directives issued for candidate k, in order
EngineCallsOf(k) ==
  SelectSeq(calls, LAMBDA c : c.cand = k /\ c.op \in EngineOps)

EngineSeq(k) ==
  [i \in 1 .. Len(EngineCallsOf(k)) |-> EngineCallsOf(k)[i].op]

\* the directives of one transaction in mode m
ExpectedDirectives(m) ==
  CASE m = GET -> << "init-report", "get-usage", "get-report" >>
    [] m = SET -> << "init-report", "set-usage", "set-report" >>
    [] m = SETREL -> << "init-report", "get-usage", "get-report",
                        "set-usage", "set-report",
                        "get-usage", "get-report" >>
    [] OTHER -> << >>

IsPrefix(s, t) == Len(s) <= Len(t) /\ s = SubSeq(t, 1, Len(s))

\* candidate k opened and passes the support and the monitor checks of a
\* non-Detect run
PassesChecks(k) ==
  /\ mode # DETECT
  /\ k \in Opened
  /\ PassesSupport(k)
  /\ ~NonMonitor(k)

Closed(k) == \E i \in CallsOf(k) : calls[i].op = "close"

(* C16: For each device that passes the support and monitor checks the     *)
(* directives issued are exactly: init-report first, then in Query mode    *)
(* get-usage, get-report; in SetAbsolute mode set-usage, set-report; in    *)
(* SetRelative mode get-usage, get-report, set-usage, set-report,          *)
(* get-usage, get-report; in that order, with no other transaction         *)
(* directive before, between or after them (a run that is in the middle of *)
(* a transaction, or ended in it, has issued a prefix of them).            *)
C16_DirectiveOrder ==
  /\ \A k \in 1 .. Len(files) :
       LET issued == EngineSeq(k)
       IN /\ IsPrefix(issued, ExpectedDirectives(mode))
          /\ issued # << >> => PassesChecks(k)
          /\ (PassesChecks(k) /\ Passed(k)) =>
               (issued = ExpectedDirectives(mode) /\ Closed(k))
  /\ \A i \in 1 .. Len(calls) :
       calls[i].op \in EngineOps =>
         /\ ~calls[i].ok => (i = Len(calls) /\ Exited)
         /\ calls[i].op # "init-report" =>
              (calls[i - 1].op \in EngineOps /\ calls[i - 1].cand = calls[i].cand)
         /\ i < Len(calls) =>
              /\ calls[i + 1].cand = calls[i].cand
              /\ calls[i + 1].op \in (EngineOps \ { "init-report" }) \cup { "close" }

\* a SetRelative run that has completed the six directives after the
\* init-report on its first candidate
C16_Witness ==
  /\ mode = SETREL
  /\ it = 2
  /\ Closed(1)
  /\ Len(EngineSeq(1)) = 7
  /\ EngineSeq(1)[5] = "set-report"

-----------------------------------------------------------------------------
StepOps == { "get-usage", "get-report", "set-usage", "set-report" }

(* C17: A failed transaction step (get-usage, get-report, set-usage or     *)
(* set-report) is never retried and ends the whole process: after the      *)
(* failing directive no further directive is issued to any device, no      *)
(* later candidate is opened, and no brightness value is printed for the   *)
(* failing device.                                                         *)
C17_FailedStepEndsRun ==
  \A i \in 1 .. Len(calls) :
    (calls[i].op \in StepOps /\ ~calls[i].ok) =>
      /\ i = Len(calls)
      /\ Exited
      /\ exitCode \in { ExitUsageFailed, ExitReportFailed }
      /\ it = calls[i].cand
      /\ \A j \in LinesOf("brightness") : out[j].cand # calls[i].cand

\* a SetRelative run that completed its first candidate and has ended at the
\* failed readback of the second, after the new value was written to it
C17_Witness ==
  /\ Exited
  /\ mode = SETREL
  /\ it = 2
  /\ Closed(1)
  /\ \E j \in LinesOf("brightness") : out[j].cand = 1
  /\ Len(EngineSeq(2)) = 6
  /\ LastCall.op = "get-usage"
  /\ ~LastCall.ok

(* C18: In SetRelative mode the value reported for a device is the value   *)
(* returned by the second get-usage directive, the one issued after        *)
(* set-report (the readback), not the locally computed clamped sum; on a   *)
(* device that snaps the written value to another one, the reported value  *)
(* is the device's value.                                                  *)
C18_ReportsReadback ==
  mode = SETREL =>
    \A j \in LinesOf("brightness") :
      LET engine == EngineCallsOf(out[j].cand)
      IN /\ Len(engine) = 7
         /\ engine[5].op = "set-report"
         /\ engine[6].op = "get-usage"
         /\ out[j].value = engine[6].value
         /\ out[j].value = Snap(engine[6].node, engine[4].value)

\* a SetRelative run on the display that rounds to multiples of 16: 200 was
\* computed and written, the display kept 192, and 192 was reported
C18_Witness ==
  /\ mode = SETREL
  /\ \E j \in LinesOf("brightness") :
       /\ EngineCallsOf(out[j].cand)[4].value = 200
       /\ out[j].value = 192
       /\ devValue[NodeOf(files[out[j].cand])] = 192

\* the successful set-usage directives
SetUsageCalls ==
  { i \in 1 .. Len(calls) : calls[i].op = "set-usage" /\ calls[i].ok }

(* C19: The mode, the delta and the force flag are fixed before the first  *)
(* device is opened and are not changed by processing any device; in       *)
(* SetAbsolute mode every device of the run that reaches the transaction   *)
(* receives exactly the one requested brightness in its set-usage.         *)
C19_ModeFixed ==
  /\ [](calls # << >> => pc \notin { "getopt", "params" })
  /\ [][pc \notin { "getopt", "params" }
          => (mode' = mode /\ amount' = amount /\ force' = force)]_vars
  /\ [][(pc \notin { "getopt", "params" } /\ mode = SET)
          => brightness' = brightness]_vars
  /\ [](mode = SET => \A i \in SetUsageCalls : calls[i].value = brightness)
  /\ [](mode = SET =>
          \A k \in 1 .. Len(files) :
            Closed(k) => \E i \in SetUsageCalls : calls[i].cand = k)

\* a SetAbsolute run that has handed the requested 300 to two devices
C19_Witness ==
  /\ mode = SET
  /\ brightness = 300
  /\ Closed(1)
  /\ \E i \in SetUsageCalls : calls[i].cand = 1 /\ calls[i].value = 300
  /\ \E i \in SetUsageCalls : calls[i].cand = 2 /\ calls[i].value = 300
                                 /\ calls[i].node # calls[1].node

\* the run has written no report to node n before the call at position i
Untouched(n, i) ==
  \A h \in 1 .. (i - 1) :
    ~(calls[h].op = "set-report" /\ calls[h].ok /\ calls[h].node = n)

-----------------------------------------------------------------------------
(* C21: In Query mode no set-usage and no set-report directive is ever     *)
(* issued to any device: a Query run leaves the brightness of every device *)
(* unchanged.                                                              *)
C21_QueryNeverWrites ==
  mode = GET =>
    /\ \A i \in 1 .. Len(calls) :
         calls[i].op \notin { "set-usage", "set-report" }
    /\ devValue = BatchValues

\* a Query run that has ended after reporting the values of two displays,
\* which still hold them
C21_Witness ==
  /\ Exited
  /\ exitCode = 0
  /\ mode = GET
  /\ Closed(1)
  /\ Closed(2)
  /\ \E j \in LinesOf("brightness") :
       out[j].cand = 1 /\ out[j].value = devValue[NodeOf(files[1])]
  /\ \E j \in LinesOf("brightness") :
       out[j].cand = 2 /\ out[j].value = devValue[NodeOf(files[2])]

\* the candidates are opened strictly in input order, each at most once
OpensInOrder ==
  \A i \in OpenCalls :
    calls[i].cand = IF i = 1 THEN 1 ELSE calls[i - 1].cand + 1

\* a device loop that has ended is past the last candidate, or stands at the
\* candidate of the first fatal condition
EndsAtListEndOrFatal ==
  (Exited /\ InDeviceLoop) =>
    \/ it = Len(files) + 1 /\ exitCode = 0 /\ ~FatalMet
    \/ /\ it <= Len(files)
       /\ FatalMet
       /\ exitCode # 0
       /\ LastCall.cand = it
       /\ \A i \in 1 .. (Len(calls) - 1) :
            calls[i].ok \/ calls[i].op \in { "open", "application" }

(* C22: Every run over a finite candidate list terminates (each directive  *)
(* returning): the candidates are visited strictly in input order, each is *)
(* opened at most once, and the loop either reaches the end of the list or *)
(* stops at the first fatal condition.                                     *)
C22_Terminates ==
  /\ <>Exited
  /\ [](it <= Len(files) + 1)
  /\ []OpensInOrder
  /\ []EndsAtListEndOrFatal

\* a run over three candidates that visited two of them and has ended at
\* the failed init-report of the third
C22_Witness ==
  /\ Exited
  /\ Len(files) = 3
  /\ it = 3
  /\ Cardinality(OpenCalls) = 3
  /\ LastFailed({ "init-report" })
  /\ exitCode = ExitInitFailed

====
